---- MODULE Spec2Model ----
(***************************************************************************)
(* Model of modal_dataloader.py: the transfer-and-verify pipeline that     *)
(* fetches dataset shards, uploads them to a Modal volume with the Modal   *)
(* CLI, optionally re-downloads them to compare SHA256 digests, and        *)
(* tallies the outcome.                                                    *)
(*                                                                         *)
(* The environment (Hugging Face download, the `modal` processes, the      *)
(* local file system) is nondeterministic: every external call picks one   *)
(* of the outcomes it can produce.  SHA256 is modelled by a streaming      *)
(* accumulator that is collision free on the bounded set of file contents  *)
(* (collision resistance of SHA256 is assumed, not checked).  Removing the *)
(* TemporaryDirectory at the end of the with block is assumed to succeed.  *)
(* The dataset repository is read-only: the content of each shard is fixed *)
(* for a run (hf_content), chosen initially among MaxLen + 1 datasets.     *)
(* The put runs under the polling loop of run_command, which does not      *)
(* read the pipes of the process: a process that fills a pipe never ends.  *)
(* SpecHash runs the loop of calculate_file_hash on its own, FairSpec adds *)
(* the fairness under which termination is examined.                       *)
(***************************************************************************)
EXTENDS Integers, Sequences, FiniteSets, TLC

\* ---------------------------------------------------------------- bounds
MaxChunks == 3      \* largest --chunks value explored
MaxLen    == 2      \* longest file content, in bytes
BlockSize == 1      \* bytes per f.read(): scaled-down stand-in for 4096
MaxHashLen == 4     \* longest file streamed block by block
MaxBlock  == 3      \* largest block size tried for the streaming

\* ------------------------------------------------------------ value sets
None      == "None"       \* Python's None where the other values are strings
True      == "True"       \* value returned by a job
False     == "False"
Absent    == <<-1>>       \* marks a path at which no file exists
NoHash    == -1           \* local_hash = None / modal_hash not yet assigned
NoExit    == -1           \* no exit code yet
NoSummary == [successful |-> -1, failed |-> -1]

Byte     == {0, 1}
Contents == UNION {[1..n -> Byte] : n \in 0..MaxLen}
Jobs     == 0..MaxChunks          \* 0 = validation shard, i >= 1 = training shard i
ChunkArgs == (-1)..MaxChunks      \* values of --chunks (argparse type=int)

\* Outcome of one external process started through the shell: either the
\* process could not be started (subprocess raises OSError), or it ran and
\* ended with an exit code and some text on stdout.
ProcOutcome ==
    {[started |-> FALSE, code |-> 1, out |-> ""]}
        \cup [started : {TRUE}, code : {0, 1}, out : {"", "text"}]

\* ------------------------------------------------------- pure functions
\* Python truthiness of what run_command returns (None, "" are falsy).
Truthy(x) == x \notin {None, ""}

\* run_command for a process that started: None when the exit code is not
\* zero (CalledProcessError is caught), the captured stdout otherwise.
run_command(o) == IF o.code # 0 THEN None ELSE o.out

\* Variant: a read returns one byte whatever size was asked for, while the
\* position still moves by the size asked for.
Take_one_byte(s, n) == SubSeq(s, 1, IF Len(s) > 0 THEN 1 ELSE 0)

\* f.read(n) at the start of the unread bytes s, and what is left after it.
Take(s, n) == SubSeq(s, 1, IF n < Len(s) THEN n ELSE Len(s))
Drop(s, n) == SubSeq(s, (IF n < Len(s) THEN n ELSE Len(s)) + 1, Len(s))

\* sha256_hash.update(chunk): absorb the bytes of one block, in order.
RECURSIVE sha256_update(_, _)
sha256_update(h, chunk) ==
    IF chunk = <<>> THEN h
    ELSE sha256_update(h * 3 + Head(chunk) + 1, Tail(chunk))

\* for chunk in iter(lambda: f.read(4096), b""): sha256_hash.update(chunk)
RECURSIVE hash_blocks(_, _, _)
hash_blocks(h, data, block) ==
    IF data = <<>> THEN h
    ELSE hash_blocks(sha256_update(h, Take(data, block)), Drop(data, block), block)

\* Variant: the digest only reflects the size of the file.
calculate_file_hash_size_only(content) == Len(content)

calculate_file_hash(content) == hash_blocks(0, content, BlockSize)

\* Variant: the comparison accepts any pair of digests.
hashes_match_any(local, modal) == TRUE

\* local_hash == modal_hash: exact equality of the two hex digests.
hashes_match(local, modal) == local = modal

\* Variant: the exit status ignores the failed uploads.
exit_status_zero(failed) == 0

\* Exit status chosen after the summary.
exit_status(failed) == IF failed > 0 THEN 1 ELSE 0

\* ---------------------------------------------------------------- state
VARIABLES
    pc,                 \* position of main
    jpc,                \* position inside download_and_upload_file / verify_modal_upload
    skip_verification,  \* args.skip_verification
    num_chunks,         \* args.chunks
    i,                  \* shard being processed (0 = validation)
    temp_dir,           \* TRUE while the TemporaryDirectory exists
    local_file,         \* local_file[j]: content of the fetched file of shard j, or Absent
    verify_file,        \* verify_file[j]: content of temp_dir/verify_<name>, or Absent
    remote,             \* remote[j]: content of /<name> in the Modal volume, or Absent
    local_hash,         \* local of download_and_upload_file
    modal_hash,         \* local of verify_modal_upload
    ret,                \* value returned by the current job (None while it runs)
    successful_uploads,
    failed_uploads,
    exit_code,          \* NoExit while the process runs
    preflight_ok,       \* run_command("modal --version") returned a truthy value
    results,            \* history: results[j] = value job j returned, or None
    calls,              \* history: calls[j][op] = number of fetch/put/get issued for shard j
    hashes,             \* history: number of calls of calculate_file_hash
    put_exit,           \* history: exit code of the put process of the current job
    get_exit,           \* history: exit code of the get process of the current job
    io_error,           \* history: an exception was raised inside the current job
    incomplete,         \* incomplete[j]: a failed fetch left a partial download in temp_dir
    summary,            \* the two numbers printed by the summary
    delivered,          \* history: what the get of the current job left at verify_path
    compared,           \* history: compared[j] = outcome of the digest comparison of job j
    dataset,            \* which content the Hugging Face repository holds for the shards
    hfile,              \* calculate_file_hash step by step: the bytes of the file
    hblock,             \* ... the size passed to f.read()
    hrest,              \* ... the bytes not read yet
    hacc,               \* ... the state of sha256_hash
    hpc,                \* ... "off", "reading" or "done"
    local_path,         \* local of download_and_upload_file: None until the fetch returned
    proc,               \* the put process: "none", "running", or "blocked" on a full pipe
    pbar                \* parity of the updates of the progress bar of run_command

vars == <<pc, jpc, skip_verification, num_chunks, i, temp_dir, local_file,
          verify_file, remote, local_hash, modal_hash, ret, successful_uploads,
          failed_uploads, exit_code, preflight_ok, results, calls, hashes,
          put_exit, get_exit, io_error, incomplete, summary, delivered, compared,
          dataset, hfile, hblock, hrest, hacc, hpc, local_path, proc, pbar>>

hashvars == <<hfile, hblock, hrest, hacc, hpc>>
putproc == <<proc, pbar>>
consts  == <<skip_verification, num_chunks, preflight_ok, summary, compared, dataset,
             hashvars>>
args    == <<skip_verification, num_chunks, dataset, hashvars, putproc>>
tallies == <<successful_uploads, failed_uploads>>
jobhist == <<put_exit, get_exit, io_error, delivered, local_path>>
fixed   == <<consts, putproc>>
locals  == <<local_hash, modal_hash>>

NoCalls == [fetch |-> 0, put |-> 0, get |-> 0]

\* No job has run yet, nothing exists yet.
Idle ==
    /\ pc = "preflight"
    /\ jpc = "idle"
    /\ i = 0
    /\ temp_dir = FALSE
    /\ local_file = [j \in Jobs |-> Absent]
    /\ verify_file = [j \in Jobs |-> Absent]
    /\ remote = [j \in Jobs |-> Absent]
    /\ local_hash = NoHash
    /\ modal_hash = NoHash
    /\ ret = None
    /\ successful_uploads = 0
    /\ failed_uploads = 0
    /\ exit_code = NoExit
    /\ preflight_ok = FALSE
    /\ results = [j \in Jobs |-> None]
    /\ calls = [j \in Jobs |-> NoCalls]
    /\ hashes = 0
    /\ put_exit = NoExit
    /\ get_exit = NoExit
    /\ io_error = FALSE
    /\ incomplete = [j \in Jobs |-> FALSE]
    /\ summary = NoSummary
    /\ delivered = Absent
    /\ compared = [j \in Jobs |-> "no"]
    /\ local_path = None
    /\ proc = "none"
    /\ pbar = 0

Init ==
    /\ Idle
    /\ skip_verification \in BOOLEAN
    /\ num_chunks \in ChunkArgs
    /\ dataset \in 0..MaxLen
    /\ hfile = <<>>
    /\ hblock = BlockSize
    /\ hrest = <<>>
    /\ hacc = 0
    /\ hpc = "off"

\* ----------------------------------------------------------------- main
\* Variant: the result of the check is not looked at.
PreflightUnchecked ==
    /\ pc = "preflight"
    /\ \E o \in ProcOutcome :
        /\ preflight_ok' = (o.started /\ Truthy(run_command(o)))
        /\ pc' = "mktemp"
    /\ UNCHANGED <<jpc, args, i, temp_dir, local_file, verify_file, remote, locals,
                   ret, tallies, results, calls, hashes, jobhist, incomplete, summary,
                   compared, exit_code>>

\* if not run_command("modal --version", ...): sys.exit(1)
\* An OSError of subprocess.run is not caught by run_command nor by main:
\* the interpreter ends with status 1.
Preflight ==
    /\ pc = "preflight"
    /\ \E o \in ProcOutcome :
        LET ok == o.started /\ Truthy(run_command(o)) IN
        /\ preflight_ok' = ok
        /\ IF ok
             THEN pc' = "mktemp" /\ UNCHANGED exit_code
             ELSE pc' = "done" /\ exit_code' = 1
    /\ UNCHANGED <<jpc, args, i, temp_dir, local_file, verify_file, remote, locals,
                   ret, tallies, results, calls, hashes, jobhist, incomplete, summary,
                   compared>>

\* Start of download_and_upload_file(filename, ...) for shard j.
StartJob(j) ==
    /\ i' = j
    /\ jpc' = "fetch"
    /\ ret' = None
    /\ local_hash' = NoHash
    /\ modal_hash' = NoHash
    /\ put_exit' = NoExit
    /\ get_exit' = NoExit
    /\ io_error' = FALSE
    /\ delivered' = Absent
    /\ local_path' = None

\* with tempfile.TemporaryDirectory() as temp_dir: ... first job = validation
EnterTempDir ==
    /\ pc = "mktemp"
    /\ \/ /\ temp_dir' = TRUE
          /\ pc' = "val"
          /\ StartJob(0)
          /\ UNCHANGED exit_code
       \/ \* mkdtemp raises OSError: uncaught, status 1
          /\ pc' = "done"
          /\ exit_code' = 1
          /\ UNCHANGED <<temp_dir, i, jpc, ret, locals, jobhist>>
    /\ UNCHANGED <<fixed, local_file, verify_file, remote, tallies,
                   results, calls, hashes, incomplete>>

\* Variant: the directory is made with mkdtemp and never removed.
CleanupLeak == UNCHANGED <<temp_dir, local_file, verify_file, incomplete>>

\* TemporaryDirectory.__exit__: the directory and everything in it is removed.
Cleanup ==
    /\ temp_dir' = FALSE
    /\ local_file' = [j \in Jobs |-> Absent]
    /\ verify_file' = [j \in Jobs |-> Absent]
    /\ incomplete' = [j \in Jobs |-> FALSE]

\* ------------------------------------------ download_and_upload_file
\* Variant: the except handler reports the job as done.
JobFailsSwallowed(raised) ==
    /\ ret' = (IF raised THEN True ELSE False)
    /\ jpc' = "return"
    /\ io_error' = (io_error \/ raised)

\* return False, either from an else branch or from an except handler.
JobFails(raised) ==
    /\ ret' = False
    /\ jpc' = "return"
    /\ io_error' = (io_error \/ raised)

Count(op) == [calls EXCEPT ![i][op] = @ + 1]

\* Variant: the digest of the fetched file is always taken.
after_fetch_always_hash(skip) == "hash_local"

\* Where the job goes after the fetch: the digest of the fetched file is
\* taken only when verification is enabled.
after_fetch(skip) == IF skip THEN "put" ELSE "hash_local"

\* Content of shard j in the dataset repository: the shards differ in length
\* (0..MaxLen bytes, shifted by the dataset chosen initially) and in bytes.
hf_content(j) ==
    [k \in 1..((j + dataset) % (MaxLen + 1)) |-> (j + k) % 2]

\* local_path = hf_hub_download(...); preview_binary_file swallows its own
\* errors and changes nothing.
Fetch ==
    /\ jpc = "fetch"
    /\ calls' = Count("fetch")
    /\ \/ /\ local_file' = [local_file EXCEPT ![i] = hf_content(i)]
          /\ local_path' = "path"
          /\ jpc' = after_fetch(skip_verification)
          /\ UNCHANGED <<ret, io_error, incomplete>>
       \/ \E junk \in BOOLEAN :
            /\ incomplete' = [incomplete EXCEPT ![i] = junk]
            /\ JobFails(TRUE)
            /\ UNCHANGED <<local_file, local_path>>
    /\ UNCHANGED <<pc, fixed, i, temp_dir, verify_file, remote, locals, tallies,
                   exit_code, results, hashes, put_exit, get_exit, delivered>>

\* local_hash = calculate_file_hash(local_path)
HashLocal ==
    /\ jpc = "hash_local"
    /\ hashes' = hashes + 1
    /\ \/ /\ local_hash' = calculate_file_hash(local_file[i])
          /\ jpc' = "put"
          /\ UNCHANGED <<ret, io_error>>
       \/ \* OSError while reading
          /\ JobFails(TRUE)
          /\ UNCHANGED local_hash
    /\ UNCHANGED <<pc, fixed, local_path, i, temp_dir, local_file, verify_file, remote, modal_hash,
                   tallies, exit_code, results, calls, put_exit,
                   get_exit, incomplete, delivered>>

\* Variant: the result of the put is ignored.
after_put_unchecked(r, skip) == IF skip THEN "remove_local" ELSE "get"

\* Variant: the local file is removed as soon as the put went through.
after_put_no_verify(r, skip) == IF Truthy(r) THEN "remove_local" ELSE "return"

\* Where the job goes when run_command(upload_cmd, ...) returned r.
after_put(r, skip) ==
    IF Truthy(r) THEN (IF skip THEN "remove_local" ELSE "get") ELSE "return"

\* run_command("modal volume put ...", show_progress=True): Popen starts the
\* process with stdout and stderr on pipes.  A process that writes more than
\* a pipe holds before it is done blocks in its write, since run_command
\* reads the pipes only after the process has ended.
Put ==
    /\ jpc = "put"
    /\ calls' = Count("put")
    /\ \/ \* Popen raises OSError
          /\ JobFails(TRUE)
          /\ UNCHANGED putproc
       \/ \E p \in {"running", "blocked"} :
            /\ proc' = p
            /\ jpc' = "put_poll"
            /\ UNCHANGED <<ret, io_error, pbar>>
    /\ UNCHANGED <<pc, consts, local_path, i, temp_dir, local_file, verify_file,
                   remote, locals, tallies, exit_code, results, hashes, put_exit,
                   get_exit, incomplete, delivered>>

\* while process.poll() is None: pbar.update(1024)
PutPoll ==
    /\ jpc = "put_poll"
    /\ proc \in {"running", "blocked"}
    /\ pbar' = 1 - pbar
    /\ UNCHANGED <<pc, jpc, consts, proc, local_path, i, temp_dir, local_file,
                   verify_file, remote, locals, ret, tallies, exit_code, results,
                   calls, hashes, put_exit, get_exit, io_error, incomplete, delivered>>

\* The put process ends: poll() returns its exit code, communicate() reads
\* the pipes, and run_command returns None or the captured stdout.
PutExit ==
    /\ jpc = "put_poll"
    /\ proc = "running"
    /\ \E o \in {q \in ProcOutcome : q.started} :
        /\ put_exit' = o.code
        /\ remote' = IF o.code = 0 THEN [remote EXCEPT ![i] = local_file[i]]
                                    ELSE remote
        /\ jpc' = after_put(run_command(o), skip_verification)
        /\ ret' = IF jpc' = "return" THEN False ELSE ret
    /\ proc' = "none"
    /\ pbar' = 0
    /\ UNCHANGED <<pc, consts, local_path, i, temp_dir, local_file, verify_file,
                   locals, tallies, exit_code, results, calls, hashes, get_exit,
                   io_error, incomplete, delivered>>

\* Altered bytes: the first byte flipped (one byte added to an empty file).
Corrupt(c) == IF c = <<>> THEN <<0>> ELSE [c EXCEPT ![1] = 1 - @]

\* What `modal volume get` can leave at verify_path when the volume holds c:
\* nothing, c itself, altered bytes of the same length, or a truncated file.
Delivered(c) ==
    {Absent, c, Corrupt(c)} \cup (IF c = <<>> THEN {} ELSE {SubSeq(c, 1, Len(c) - 1)})

\* Where verify_modal_upload goes when run_command(download_cmd, ...) returned r.
after_get(r) == IF Truthy(r) THEN "hash_verify" ELSE "return"

\* verify_modal_upload: run_command("modal volume get ...")
Get ==
    /\ jpc = "get"
    /\ calls' = Count("get")
    /\ \E o \in ProcOutcome :
        IF ~o.started
          THEN /\ JobFails(TRUE)
               /\ UNCHANGED <<verify_file, get_exit, delivered>>
          ELSE /\ get_exit' = o.code
               /\ \E d \in Delivered(remote[i]) :
                    /\ verify_file' = [verify_file EXCEPT ![i] = d]
                    /\ delivered' = d
               /\ jpc' = after_get(run_command(o))
               /\ ret' = IF jpc' = "return" THEN False ELSE ret
               /\ UNCHANGED io_error
    /\ UNCHANGED <<pc, fixed, local_path, i, temp_dir, local_file, remote, locals, tallies,
                   exit_code, results, hashes, put_exit, incomplete>>

\* modal_hash = calculate_file_hash(verify_path)
HashVerify ==
    /\ jpc = "hash_verify"
    /\ hashes' = hashes + 1
    /\ \/ /\ verify_file[i] # Absent
          /\ modal_hash' = calculate_file_hash(verify_file[i])
          /\ jpc' = "remove_verify"
          /\ UNCHANGED <<ret, io_error>>
       \/ \* FileNotFoundError, or OSError while reading
          /\ JobFails(TRUE)
          /\ UNCHANGED modal_hash
    /\ UNCHANGED <<pc, fixed, local_path, i, temp_dir, local_file, verify_file, remote, local_hash,
                   tallies, exit_code, results, calls, put_exit,
                   get_exit, incomplete, delivered>>

\* Variant: the verification copy is not removed before the comparison.
RemoveVerifyForgotten ==
    /\ jpc = "remove_verify"
    /\ jpc' = "compare"
    /\ UNCHANGED <<pc, fixed, i, temp_dir, local_file, verify_file, remote, locals,
                   ret, tallies, exit_code, results, calls, hashes, jobhist,
                   incomplete>>

\* os.remove(verify_path)
RemoveVerify ==
    /\ jpc = "remove_verify"
    /\ \/ /\ verify_file' = [verify_file EXCEPT ![i] = Absent]
          /\ jpc' = "compare"
          /\ UNCHANGED <<ret, io_error>>
       \/ \* OSError
          /\ JobFails(TRUE)
          /\ UNCHANGED verify_file
    /\ UNCHANGED <<pc, fixed, local_path, i, temp_dir, local_file, remote, locals, tallies,
                   exit_code, results, calls, hashes, put_exit,
                   get_exit, incomplete, delivered>>

\* Variant: a mismatch removes the remote copy again.
CompareRollback ==
    /\ jpc = "compare"
    /\ IF hashes_match(local_hash, modal_hash)
         THEN jpc' = "remove_local" /\ UNCHANGED <<ret, remote>>
         ELSE /\ jpc' = "return" /\ ret' = False
              /\ remote' = [remote EXCEPT ![i] = Absent]
    /\ compared' = [compared EXCEPT ![i] =
                        IF local_hash = modal_hash THEN "equal" ELSE "different"]
    /\ UNCHANGED <<pc, args, preflight_ok, summary, i, temp_dir, local_file,
                   verify_file, locals, tallies, exit_code, results, calls, hashes,
                   jobhist, incomplete>>

\* if local_hash == modal_hash: return True  else: return False
Compare ==
    /\ jpc = "compare"
    /\ IF hashes_match(local_hash, modal_hash)
         THEN jpc' = "remove_local" /\ UNCHANGED ret
         ELSE jpc' = "return" /\ ret' = False
    /\ compared' = [compared EXCEPT ![i] =
                        IF local_hash = modal_hash THEN "equal" ELSE "different"]
    /\ UNCHANGED <<pc, args, preflight_ok, summary, i, temp_dir, local_file,
                   verify_file, remote, locals,
                   tallies, exit_code, results, calls, hashes,
                   jobhist, incomplete>>

\* os.remove(local_path); return True
RemoveLocal ==
    /\ jpc = "remove_local"
    /\ \/ /\ local_file' = [local_file EXCEPT ![i] = Absent]
          /\ ret' = True
          /\ jpc' = "return"
          /\ UNCHANGED io_error
       \/ \* OSError
          /\ JobFails(TRUE)
          /\ UNCHANGED local_file
    /\ UNCHANGED <<pc, fixed, local_path, i, temp_dir, verify_file, remote, locals, tallies,
                   exit_code, results, calls, hashes, put_exit,
                   get_exit, incomplete, delivered>>

\* ------------------------------------------------------- main, continued
\* Variant: the result of the validation job is ignored.
validation_passed_unchecked(r) == TRUE

\* if not download_and_upload_file("finewebedu_val_000000.bin", ...): sys.exit(1)
validation_passed(r) == r = True

ValidationReturn ==
    /\ pc = "val"
    /\ jpc = "return"
    /\ results' = [results EXCEPT ![0] = ret]
    /\ jpc' = "idle"
    /\ IF validation_passed(ret)
         THEN /\ pc' = "loop"
              /\ UNCHANGED <<exit_code, temp_dir, local_file, verify_file, incomplete>>
         ELSE \* SystemExit unwinds the with block
              /\ Cleanup
              /\ exit_code' = 1
              /\ pc' = "done"
    /\ UNCHANGED <<fixed, i, remote, locals, ret, tallies, calls, hashes, jobhist>>

\* Variant: a failed training job is tried a second time.
LoopNextRetry ==
    /\ pc = "loop"
    /\ IF i >= 1 /\ ret = False /\ calls[i].fetch < 2
         THEN /\ StartJob(i)
              /\ pc' = "train"
              /\ UNCHANGED <<temp_dir, local_file, verify_file, incomplete>>
         ELSE IF i < num_chunks
         THEN /\ StartJob(i + 1)
              /\ pc' = "train"
              /\ UNCHANGED <<temp_dir, local_file, verify_file, incomplete>>
         ELSE /\ Cleanup
              /\ pc' = "summary"
              /\ UNCHANGED <<i, jpc, ret, locals, jobhist>>
    /\ UNCHANGED <<fixed, remote, tallies, exit_code, results, calls, hashes>>

\* for i in range(1, num_chunks + 1): ...   and the end of the with block
LoopNext ==
    /\ pc = "loop"
    /\ IF i < num_chunks
         THEN /\ StartJob(i + 1)
              /\ pc' = "train"
              /\ UNCHANGED <<temp_dir, local_file, verify_file, incomplete>>
         ELSE /\ Cleanup
              /\ pc' = "summary"
              /\ UNCHANGED <<i, jpc, ret, locals, jobhist>>
    /\ UNCHANGED <<fixed, remote, tallies, exit_code, results, calls, hashes>>

\* Variant: the loop stops at the first failed job.
loop_continues_until_failure(r) == r = True

\* Whether the loop goes on after a job returned r.
loop_continues(r) == TRUE

\* Variant: a failed job is not counted.
tally_success_only(r, s, f) == IF r = True THEN <<s + 1, f>> ELSE <<s, f>>

\* if download_and_upload_file(...): successful_uploads += 1 else: failed_uploads += 1
tally(r, s, f) == IF r = True THEN <<s + 1, f>> ELSE <<s, f + 1>>

\* One turn of the training loop, after the job has returned.
TrainingReturn ==
    /\ pc = "train"
    /\ jpc = "return"
    /\ results' = [results EXCEPT ![i] = ret]
    /\ jpc' = "idle"
    /\ successful_uploads' = tally(ret, successful_uploads, failed_uploads)[1]
    /\ failed_uploads' = tally(ret, successful_uploads, failed_uploads)[2]
    /\ IF loop_continues(ret)
         THEN pc' = "loop" /\ UNCHANGED <<temp_dir, local_file, verify_file, incomplete>>
         ELSE pc' = "summary" /\ Cleanup
    /\ UNCHANGED <<fixed, i, remote, locals, ret, exit_code, calls, hashes, jobhist>>

\* Variant: the validation shard is left out of the count.
reported_training_only(s, f) == [successful |-> s, failed |-> f]

\* "Successfully uploaded: {successful_uploads + 1}", "Failed uploads: {failed_uploads}"
reported(s, f) == [successful |-> s + 1, failed |-> f]

\* The summary and the exit status.
Summary ==
    /\ pc = "summary"
    /\ summary' = reported(successful_uploads, failed_uploads)
    /\ exit_code' = exit_status(failed_uploads)
    /\ pc' = "done"
    /\ UNCHANGED <<jpc, args, preflight_ok, i, temp_dir,
                   local_file, verify_file, remote, locals, ret, tallies, results,
                   calls, hashes, jobhist, incomplete, compared>>

Next ==
    \/ Preflight
    \/ EnterTempDir
    \/ Fetch
    \/ HashLocal
    \/ Put
    \/ PutPoll
    \/ PutExit
    \/ Get
    \/ HashVerify
    \/ RemoveVerify
    \/ Compare
    \/ RemoveLocal
    \/ ValidationReturn
    \/ LoopNext
    \/ TrainingReturn
    \/ Summary

Spec == Init /\ [][Next]_vars

\* Every step but the polling.  The program goes on whenever it can, an
\* external call that can return does return (weak fairness of Progress),
\* and the polling loop keeps turning while the put has not ended (weak
\* fairness of PutPoll).
Progress ==
    \/ Preflight
    \/ EnterTempDir
    \/ Fetch
    \/ HashLocal
    \/ Put
    \/ PutExit
    \/ Get
    \/ HashVerify
    \/ RemoveVerify
    \/ Compare
    \/ RemoveLocal
    \/ ValidationReturn
    \/ LoopNext
    \/ TrainingReturn
    \/ Summary

FairSpec == Spec /\ WF_vars(Progress) /\ WF_vars(PutPoll)

\* ------------------------------------- calculate_file_hash, step by step
\* The loop of calculate_file_hash run on its own, on any file of up to
\* MaxHashLen bytes and with any block size passed to f.read().
HashContents == UNION {[1..n -> Byte] : n \in 0..MaxHashLen}

mainvars == <<pc, jpc, skip_verification, num_chunks, i, temp_dir, local_file,
              verify_file, remote, local_hash, modal_hash, ret, successful_uploads,
              failed_uploads, exit_code, preflight_ok, results, calls, hashes,
              put_exit, get_exit, io_error, incomplete, summary, delivered,
              compared, dataset, local_path, proc, pbar>>

\* sha256_hash = hashlib.sha256(); open(file_path, "rb")
InitHash ==
    /\ Idle
    /\ skip_verification = FALSE
    /\ num_chunks = 0
    /\ dataset = 0
    /\ hfile \in HashContents
    /\ hblock \in 1..MaxBlock
    /\ hrest = hfile
    /\ hacc = 0
    /\ hpc = "reading"

\* One turn of the for loop: chunk = f.read(block); sha256_hash.update(chunk)
HashRead ==
    /\ hpc = "reading"
    /\ Take(hrest, hblock) # <<>>
    /\ hacc' = sha256_update(hacc, Take(hrest, hblock))
    /\ hrest' = Drop(hrest, hblock)
    /\ UNCHANGED <<mainvars, hfile, hblock, hpc>>

\* f.read() returned b"": the iterator stops, hexdigest() is returned.
HashEnd ==
    /\ hpc = "reading"
    /\ Take(hrest, hblock) = <<>>
    /\ hpc' = "done"
    /\ UNCHANGED <<mainvars, hfile, hblock, hrest, hacc>>

NextHash ==
    \/ HashRead
    \/ HashEnd

SpecHash == InitHash /\ [][NextHash]_vars

TypeOK ==
    /\ pc \in {"preflight", "mktemp", "val", "loop", "train", "summary", "done"}
    /\ jpc \in {"idle", "fetch", "hash_local", "put", "put_poll", "get", "hash_verify",
                "remove_verify", "compare", "remove_local", "return"}
    /\ i \in Jobs
    /\ ret \in {None, True, False}
    /\ exit_code \in {NoExit, 0, 1}
    /\ \A j \in Jobs : local_file[j] \in Contents \cup {Absent}
    /\ \A j \in Jobs : verify_file[j] \in Contents \cup {Absent}
    /\ \A j \in Jobs : remote[j] \in Contents \cup {Absent}
    /\ proc \in {"none", "running", "blocked"}
    /\ pbar \in {0, 1}
    /\ local_path \in {None, "path"}

\* ================================================================ claims
Training == Jobs \ {0}

GetIssued == calls[i].get > 0

\* The verification step of the current job has ended.
VerifyEnded == GetIssued /\ jpc \in {"remove_local", "return", "idle"}

\* C1: with verification enabled a job returns True only after, in this
\* order, one put that exited with 0, one get that exited with 0, and a
\* digest of the re-downloaded copy equal to the digest of the fetched file;
\* when the two digests differ the job returns False.
C1_VerifiedSuccess ==
    /\ (~skip_verification /\ jpc = "return" /\ ret = True) =>
            /\ calls[i].put = 1 /\ put_exit = 0
            /\ calls[i].get = 1 /\ get_exit = 0
            /\ local_hash = calculate_file_hash(remote[i])
            /\ modal_hash = calculate_file_hash(delivered)
            /\ modal_hash = local_hash
            /\ compared[i] = "equal"
    /\ GetIssued => put_exit = 0
    /\ modal_hash # NoHash => (get_exit = 0 /\ local_hash # NoHash)
    /\ (jpc = "return" /\ modal_hash # NoHash /\ modal_hash # local_hash) => ret = False

C1_Witness ==
    /\ ~skip_verification /\ jpc = "return" /\ ret = True /\ i >= 1
    /\ Len(delivered) = MaxLen

\* C2: when the validation job returns False no fetch, put or get is ever
\* issued for a training shard and the process ends with status 1.
C2_ValidationFailureStopsRun ==
    /\ results[0] = False =>
            /\ pc = "done" /\ exit_code = 1
            /\ \A j \in Training : calls[j] = NoCalls /\ results[j] = None
    /\ pc = "val" => \A j \in Training : calls[j] = NoCalls

C2_Witness ==
    results[0] = False /\ num_chunks >= 1 /\ calls[0].put = 1 /\ exit_code = 1

\* C3: the exit status is 0 exactly when the pre-flight check passed, the
\* validation job returned True and every training job returned True, and
\* 1 otherwise.
AllPassed ==
    /\ preflight_ok
    /\ results[0] = True
    /\ \A j \in Training : j <= num_chunks => results[j] = True

C3_ExitCode ==
    /\ pc = "done" => (exit_code \in {0, 1} /\ (exit_code = 0 <=> AllPassed))
    /\ pc # "done" => exit_code = NoExit

C3_Witness ==
    pc = "done" /\ exit_code = 0 /\ num_chunks >= 2

\* C4: if the put process exits with 0, whatever it prints, the get works
\* and delivers the content of the local file, and nothing raises, then the
\* job returns True; and the fetched file exists as long as the upload and
\* its verification are under way.
C4_PutExitZeroSucceeds ==
    /\ (jpc = "return" /\ put_exit = 0 /\ ~io_error /\ get_exit # 1
            /\ (GetIssued => delivered = remote[i])) => ret = True
    /\ jpc \in {"put", "put_poll", "get", "hash_verify", "remove_verify", "compare"} =>
            local_file[i] # Absent

\* C5: with verification enabled, when the put fails (exit code not 0, or
\* the process could not be started) no get is issued for the job, nothing is
\* re-downloaded and the job returns False.
PutFailed == calls[i].put > 0 /\ jpc \notin {"put", "put_poll"} /\ put_exit # 0

C5_NoGetAfterFailedPut ==
    (~skip_verification /\ PutFailed) =>
        /\ calls[i].get = 0
        /\ verify_file[i] = Absent /\ delivered = Absent
        /\ ret = False
        /\ results[i] \in {None, False}

C5_Witness ==
    ~skip_verification /\ PutFailed /\ put_exit = 1 /\ results[i] = False /\ i >= 1

\* C6: when the put exited with 0 and the get left a copy whose content
\* differs from the local file, the job returns False and the fetched file
\* still exists, unchanged, when the job returns.
C6_MismatchKeepsLocalFile ==
    (jpc = "return" /\ put_exit = 0 /\ GetIssued
        /\ delivered # Absent /\ delivered # remote[i]) =>
            /\ ret = False
            /\ local_file[i] = remote[i]

C6_Witness ==
    /\ jpc = "return" /\ compared[i] = "different"
    /\ Len(delivered) = Len(remote[i])

\* C7: with --skip-verification no get is issued for any shard and
\* calculate_file_hash is never called.
C7_SkipVerification ==
    skip_verification =>
        /\ \A j \in Jobs : calls[j].get = 0 /\ verify_file[j] = Absent
        /\ hashes = 0
        /\ local_hash = NoHash /\ modal_hash = NoHash

C7_Witness ==
    /\ skip_verification /\ pc = "done" /\ num_chunks >= 2
    /\ results[1] = True /\ results[2] = False /\ calls[2].put = 1

\* C8, as stated: once the verification step of a job has ended, with any
\* result, verify_<name> no longer exists in the scratch directory.
C8_VerifyCopyAlwaysRemoved ==
    /\ VerifyEnded => verify_file[i] = Absent
    /\ \A j \in Jobs : j < i => verify_file[j] = Absent

\* C8, amended: once the two digests have been compared, equal or different,
\* verify_<name> no longer exists in the scratch directory.
C8_VerifyCopyRemovedAfterComparison ==
    \A j \in Jobs : compared[j] # "no" => verify_file[j] = Absent

C8_Witness ==
    jpc = "return" /\ compared[i] = "different" /\ delivered # Absent /\ temp_dir

\* C9: when the process has ended, the scratch directory and every file in
\* it are gone; files only ever exist inside the scratch directory.
NoFiles ==
    \A j \in Jobs :
        local_file[j] = Absent /\ verify_file[j] = Absent /\ ~incomplete[j]

C9_ScratchRemoved ==
    /\ pc = "done" => (~temp_dir /\ NoFiles)
    /\ ~temp_dir => NoFiles

C9_Witness ==
    /\ pc = "done" /\ calls[0].fetch = 1 /\ num_chunks >= 2
    /\ compared[1] = "different" /\ results[2] = False /\ calls[2].get = 1
    /\ compared[2] = "no"

\* C10: when the validation job returned True, every training shard 1..N is
\* attempted exactly once, in ascending order, each job starting only after
\* the previous one has returned, whatever the jobs return.
C10_EveryShardAttemptedInOrder ==
    /\ (pc \in {"summary", "done"} /\ results[0] = True) =>
            \A j \in Training :
                IF j <= num_chunks
                  THEN calls[j].fetch = 1 /\ results[j] # None
                  ELSE calls[j] = NoCalls /\ results[j] = None
    /\ \A j \in Jobs :
            /\ calls[j].fetch <= 1 /\ calls[j].put <= 1 /\ calls[j].get <= 1
            /\ calls[j] # NoCalls =>
                    /\ j <= i
                    /\ \A k \in Jobs : k < j => results[k] # None
                    /\ j >= 1 => results[0] = True
            /\ results[j] # None => (j < i \/ (j = i /\ jpc = "idle"))

C10_Witness ==
    /\ pc = "done" /\ num_chunks >= 2 /\ results[0] = True
    /\ results[1] = False /\ results[2] = True

\* C12: the digest of a file does not depend on the block size of the
\* streaming: read in blocks of any fixed size, the bytes give the digest
\* they give when absorbed in one piece, which is also the digest
\* calculate_file_hash returns with its own block size.
C12_BlockSizeIndependent ==
    /\ hpc = "reading" => sha256_update(hacc, hrest) = sha256_update(0, hfile)
    /\ hpc = "done" =>
            /\ hrest = <<>>
            /\ hacc = sha256_update(0, hfile)
            /\ hacc = calculate_file_hash(hfile)

C12_Witness ==
    /\ hpc = "done" /\ hblock > 1
    /\ Len(hfile) > hblock /\ Len(hfile) % hblock # 0
    /\ hacc = sha256_update(0, hfile)

\* C11: with --chunks N, N >= 0, and every job returning True, N + 1 jobs
\* have run (the validation job and N training jobs, no other) and the
\* summary reports successful = N + 1 and failed = 0.
JobsRun == {j \in Jobs : calls[j].fetch > 0}

C11_AllSucceedSummary ==
    (pc = "done" /\ num_chunks >= 0 /\ \A j \in 0..num_chunks : results[j] = True) =>
        /\ JobsRun = 0..num_chunks
        /\ Cardinality(JobsRun) = num_chunks + 1
        /\ summary = [successful |-> num_chunks + 1, failed |-> 0]

C11_Witness ==
    /\ pc = "done" /\ num_chunks = 3
    /\ \A j \in 0..3 : results[j] = True
    /\ summary.successful = 4 /\ summary.failed = 0

\* C19: the two counters partition the finished training jobs: their sum
\* is the number of training jobs that have returned, each one counts the
\* jobs that returned True, respectively False, and for N >= 0 the summary
\* satisfies successful + failed = N + 1.
Finished(r) == {j \in Training : results[j] = r}

C19_Tally ==
    /\ successful_uploads = Cardinality(Finished(True))
    /\ failed_uploads = Cardinality(Finished(False))
    /\ successful_uploads >= 0 /\ failed_uploads >= 0
    /\ pc = "loop" => successful_uploads + failed_uploads = i
    /\ pc = "train" => successful_uploads + failed_uploads = i - 1
    /\ summary # NoSummary =>
            /\ summary.successful = successful_uploads + 1
            /\ summary.failed = failed_uploads
            /\ num_chunks >= 0 => summary.successful + summary.failed = num_chunks + 1

C19_Witness ==
    /\ summary # NoSummary /\ num_chunks >= 3
    /\ successful_uploads >= 1 /\ failed_uploads >= 2

\* C13: the fetched file is deleted on the success path only: once the
\* fetch has returned, the file is gone exactly when the job returns True,
\* which needs a put that went through and skipped verification or equal
\* digests; on every other outcome it still exists when the job returns.
C13_LocalFileDeletedOnlyOnSuccess ==
    /\ (temp_dir /\ local_path # None) =>
            /\ local_file[i] = Absent <=> ret = True
            /\ local_file[i] # Absent => local_file[i] = hf_content(i)
            /\ ret = True =>
                    /\ put_exit = 0
                    /\ skip_verification \/ compared[i] = "equal"
    /\ \A j \in Jobs : (temp_dir /\ results[j] = True) => local_file[j] = Absent

C13_Witness ==
    /\ jpc = "return" /\ local_path # None /\ ret = False
    /\ put_exit = 1 /\ local_file[i] = hf_content(i) /\ i >= 1

\* C14: an error raised inside a job makes that job return False and goes no
\* further: a failed training job never ends the run before the summary, and
\* once the scratch directory exists the run ends early only when the
\* validation job returned False.
EarlyExit == pc = "done" /\ summary = NoSummary

C14_ErrorsCaughtAtJobBoundary ==
    /\ io_error => (jpc \in {"return", "idle"} /\ ret = False)
    /\ (io_error /\ jpc = "return") => (pc \in {"val", "train"} /\ exit_code = NoExit)
    /\ \A j \in Training : results[j] # None => ~EarlyExit
    /\ (EarlyExit /\ calls[0].fetch > 0) => results[0] = False
    /\ (EarlyExit /\ results[0] = None) => exit_code = 1

C14_Witness ==
    /\ pc = "done" /\ summary # NoSummary /\ io_error
    /\ i >= 2 /\ results[i] = False /\ results[1] = False /\ calls[1].get = 1

\* C15: when the pre-flight check fails the process ends with status 1 at
\* once: the scratch directory never exists and no fetch, put or get is
\* issued for any shard.
C15_PreflightFailureAborts ==
    (pc # "preflight" /\ ~preflight_ok) =>
        /\ pc = "done" /\ exit_code = 1
        /\ ~temp_dir
        /\ \A j \in Jobs : calls[j] = NoCalls /\ results[j] = None /\ remote[j] = Absent

C15_Witness ==
    pc = "done" /\ ~preflight_ok /\ exit_code = 1 /\ num_chunks >= 1 /\ jpc = "idle"

\* C16: no step ever issues a second fetch, put or get for a shard; once a
\* job has returned its result stands and nothing more is issued for its
\* shard; a job that has failed issues nothing more.
C16_NoRetry ==
    [][\A j \in Jobs :
          /\ calls'[j].fetch <= 1 /\ calls'[j].put <= 1 /\ calls'[j].get <= 1
          /\ results[j] # None => (results'[j] = results[j] /\ calls'[j] = calls[j])
          /\ (j = i /\ ret = False) => calls'[j] = calls[j]]_vars

C16_Witness ==
    /\ pc = "done" /\ num_chunks >= 2
    /\ results[1] = False /\ calls[1] = [fetch |-> 1, put |-> 1, get |-> 0]
    /\ results[2] = True

\* C17: the remote copy of a shard, once written, is never removed nor
\* rewritten; when a job whose put went through returns, failed or not, the
\* volume holds the content of the shard.
C17_NoRollback ==
    /\ []((jpc = "return" /\ put_exit = 0) => remote[i] = hf_content(i))
    /\ [][\A j \in Jobs : remote[j] # Absent => remote'[j] = remote[j]]_vars

C17_Witness ==
    /\ pc = "done" /\ results[1] = False /\ compared[1] = "different"
    /\ remote[1] = hf_content(1)

====
